---- MODULE Spec2Model ----
(***************************************************************************)
(* Model of the crates-io language server (crates-io-lsp).                 *)
(*                                                                         *)
(* Two resolvers are modelled:                                             *)
(*   - CratesIoBackend (main.rs): the notification handlers did_open,      *)
(*     did_change, did_save, did_close, the diagnostic pass                *)
(*     (update_diagnostics / collect_diagnostics) and the async resolver   *)
(*     get_versions with its JoinSet of fetch tasks;                       *)
(*   - VersionDB (api.rs): the thread-pool resolver with its bounded       *)
(*     request channel, its workers and its response channel.              *)
(*                                                                         *)
(* Spec is the server with its handlers, SpecDB the thread pool, SpecBoth  *)
(* either of the two.  SpecOpened is the server with one manifest open,    *)
(* SpecPass one diagnostic pass over manifests of many shapes, SpecDoc     *)
(* did_change with ranges on a document of bytes, SpecPos the functions    *)
(* pos_to_offset and offset_to_pos on their own, SpecBurst the thread pool *)
(* with long name lists.                                                   *)
(*                                                                         *)
(* Handlers run concurrently (the protocol framework polls several         *)
(* handler futures at once) and interleave at their .await points.  A      *)
(* handler is therefore a task with a position pc; every action below is   *)
(* the code between two consecutive suspension points of one handler.      *)
(***************************************************************************)
EXTENDS Integers, Sequences, FiniteSets, TLC

(***************************************************************************)
(* Bounds of the model.                                                    *)
(***************************************************************************)
\* Handler futures in flight at the same time.
MaxTasks == 2
\* The client numbers the versions of a document from 1 (the open) up to
\* MaxVersion, one more for every change.
MaxVersion == 2
\* Notifications the client sends in one run.
MaxNotifs == 2

\* Length of the name list of one VersionDB::get_versions call.
MaxDBNames == 3

\* api.rs 11: the number of worker threads, and the capacity of the request
\* channel (create_workers(THREADS, ...), mpmc::bounded(count)).
THREADS == 4

Tasks == 1..MaxTasks

(***************************************************************************)
(* Data: URIs, version strings, registry responses, manifest texts.        *)
(***************************************************************************)
\* A URI is the sequence of its path segments.
UriA == <<"a", "Cargo.toml">>
UriB == <<"b", "Cargo.toml">>
UriOther == <<"a", "main.rs">>
URIs == {UriA, UriB, UriOther}
NoUri == <<>>

\* main.rs 323-328: the last path segment is "Cargo.toml".
is_cargo_toml(uri) == Len(uri) > 0 /\ uri[Len(uri)] = "Cargo.toml"

ManifestURIs == {u \in URIs : is_cargo_toml(u)}

\* Strings that are compared by prefix are sequences of characters.
V10 == <<"1", ".", "0">>
V20 == <<"2", ".", "0">>
ReqStar == <<"*">>
Req1 == <<"1">>
Req2 == <<"2">>

\* The dependency names of the manifests, and the names VersionDB is asked for.
Names == {"a", "p"}
DBNames == {"a", "b"}

\* Option<T>: None is the empty sequence, Some(x) the one-element sequence.
None == <<>>
Some(x) == <<x>>

\* Result<Vec<String>>: what api::fetch_versions returns for one name.
Ok(versions) == [ok |-> TRUE, versions |-> versions]
Err == [ok |-> FALSE, versions |-> <<>>]
VersionLists == {<<>>, <<V10, V20>>}
Responses == {Err} \cup {Ok(l) : l \in VersionLists}

\* One entry of a dependency table as cargo_manifest parses it: the key,
\* the requirement (Dependency::req), whether the detail has a path, and the
\* table it was declared in.
Entry(name, req, path, table) ==
    [name |-> name, req |-> req, path |-> path, table |-> table]

\* A manifest text, seen through toml::from_str::<SpannedManifest>: whether
\* it parses, and its entries in the order dependencies, build-dependencies,
\* dev-dependencies (each table a BTreeMap, ordered by key).
TextEmpty == [ok |-> TRUE, deps |-> <<>>]
TextBad == [ok |-> FALSE, deps |-> <<>>]
TextAA ==
    [ok |-> TRUE,
     deps |-> <<Entry("a", Req2, FALSE, "dependencies"),
                Entry("a", Req1, FALSE, "dev-dependencies")>>]
TextAP ==
    [ok |-> TRUE,
     deps |-> <<Entry("a", Req2, FALSE, "dependencies"),
                Entry("p", ReqStar, TRUE, "dependencies")>>]
Texts == {TextBad, TextAA, TextAP}

Range(s) == {s[i] : i \in 1..Len(s)}

(***************************************************************************)
(* HashMap helpers.  A map is a function whose domain is the set of keys.  *)
(***************************************************************************)
EmptyMap == [k \in {} |-> {}]
Insert(map, key, value) ==
    [k \in DOMAIN map \cup {key} |-> IF k = key THEN value ELSE map[k]]
Remove(map, key) == [k \in DOMAIN map \ {key} |-> map[k]]

\* FileInfo::new (main.rs 356-365).
FileInfo(text, version) == [text |-> text, version |-> version]

(***************************************************************************)
(* Text positions and edits (main.rs 104-112, 330-354).  A text that is    *)
(* edited by range or mapped to positions is the sequence of its bytes;    *)
(* such texts are ASCII and have no carriage return.                       *)
(***************************************************************************)
\* lsp_types::Position: zero-based line and character.
Position(line, character) == [line |-> line, character |-> character]

\* str::lines: the byte offsets at which the lines of the text start.  A
\* line ends at a "\n" or at the end of the text; nothing follows the last
\* "\n" of a text that ends with one, and the empty text has no line.
LineStarts(text) ==
    (IF Len(text) > 0 THEN {0} ELSE {}) \cup
    {i \in 1..(Len(text) - 1) : text[i] = "\n"}

\* text.lines().count().
LinesCount(text) == Cardinality(LineStarts(text))

\* text.lines().nth(n), as line.as_ptr().offset_from(text.as_ptr()).
NthLineStart(text, n) ==
    CHOOSE s \in LineStarts(text) :
        Cardinality({r \in LineStarts(text) : r < s}) = n

\* pos_to_offset (main.rs 330-335): None when the text has no such line,
\* else the start of the line plus the character.
pos_to_offset(text, pos) ==
    IF pos.line >= LinesCount(text) THEN None
    ELSE Some(NthLineStart(text, pos.line) + pos.character)

\* text[..offset].
Prefix(text, offset) == SubSeq(text, 1, offset)

\* str::ends_with("\n").
EndsWithNewline(text) == Len(text) > 0 /\ text[Len(text)] = "\n"

\* text.lines().last().unwrap().len(), for a text that has a line.
LastLineLen(text) ==
    Len(text) - (CHOOSE s \in LineStarts(text) : \A r \in LineStarts(text) : r <= s)

\* offset_to_pos, main.rs 345-348: for offset 0 of a text that is not empty
\* text[..offset] has no line.  lines().count() - 1 overflows (a panic
\* where overflow is checked) and lines().last().unwrap() panics on None:
\* every build panics.
offset_to_pos_panics(text, offset) ==
    /\ offset + 1 <= Len(text)
    /\ ~EndsWithNewline(Prefix(text, offset))
    /\ LinesCount(Prefix(text, offset)) = 0

\* offset_to_pos (main.rs 337-354), where it returns.
offset_to_pos(text, offset) ==
    IF offset + 1 > Len(text) THEN None
    ELSE IF EndsWithNewline(Prefix(text, offset))
         THEN Some(Position(LinesCount(Prefix(text, offset)), 0))
         ELSE Some(Position(LinesCount(Prefix(text, offset)) - 1,
                            LastLineLen(Prefix(text, offset))))

\* lsp_types::TextDocumentContentChangeEvent: an optional range and the
\* replacement text.  A range is a record of its start and end positions.
Change(range, text) == [range |-> range, text |-> text]
LspRange(start, end) == [start |-> start, end |-> end]

\* String::replace_range(start..end, with), where it does not panic.
replace_range(text, start, end, with) ==
    SubSeq(text, 1, start) \o with \o SubSeq(text, end + 1, Len(text))

\* main.rs 105-108: where applying one change panics.  pos_to_offset(..)
\* .unwrap() panics on None; replace_range panics when the range is
\* decreasing or ends past the text.
ChangePanics(text, change) ==
    /\ change.range # None
    /\ LET start == pos_to_offset(text, change.range[1].start)
           end == pos_to_offset(text, change.range[1].end)
       IN  \/ start = None
           \/ end = None
           \/ start[1] > end[1]
           \/ end[1] > Len(text)

\* main.rs 105-111: the text after one change that does not panic.
ApplyChange(text, change) ==
    IF change.range # None
    THEN replace_range(text,
                       pos_to_offset(text, change.range[1].start)[1],
                       pos_to_offset(text, change.range[1].end)[1],
                       change.text)
    ELSE change.text

RECURSIVE ApplyChanges(_, _)
\* main.rs 104-112: the changes applied in order; None when one panics.
ApplyChanges(text, changes) ==
    IF changes = <<>> THEN Some(text)
    ELSE IF ChangePanics(text, Head(changes)) THEN None
         ELSE ApplyChanges(ApplyChange(text, Head(changes)), Tail(changes))

(***************************************************************************)
(* collect_diagnostics, first half (main.rs 184-199): parse, drop the      *)
(* entries that have a path, collect the names into a Vec.                 *)
(***************************************************************************)
\* toml::from_str(text)? : the pass is aborted when the text does not parse.
ParseOk(text) == text.ok

\* The chained tables with nothing filtered out.
DepsUnfiltered(text) == text.deps

\* deps: the chained tables without the relative (path) dependencies.
Deps(text) == SelectSeq(text.deps, LAMBDA d : ~d.path)

\* dep_names: one name per surviving entry, collected into a Vec.
DepNames(text) == [i \in 1..Len(Deps(text)) |-> Deps(text)[i].name]

(***************************************************************************)
(* CratesIoBackend::get_versions (main.rs 265-303).                        *)
(***************************************************************************)
\* Lines 271-273: the names found in the cache snapshot, with their
\* versions, in input order.
CacheHits(cache, names) ==
    LET hit == SelectSeq(names, LAMBDA n : n \in DOMAIN cache)
    IN  [i \in 1..Len(hit) |-> [name |-> hit[i], versions |-> cache[hit[i]]]]

\* Lines 274-281: one fetch task is spawned for every name of the input
\* that the snapshot does not hold.
CacheMisses(cache, names) == SelectSeq(names, LAMBDA n : n \notin DOMAIN cache)

\* A resolver that does not wait for its fetch tasks.
JoinAllReadyNoBarrier(task) == TRUE

\* Line 284: join_all resolves once every spawned task has finished.
JoinAllReady(task) == task.pending = {}

RECURSIVE MergeCacheDefault(_, _)
\* A merge that caches the empty list for a failed fetch.
MergeCacheDefault(cache, joined) ==
    IF joined = <<>> THEN cache
    ELSE LET j == Head(joined)
         IN  MergeCacheDefault(Insert(cache, j.name, j.resp.versions), Tail(joined))

RECURSIVE MergeCache(_, _)
\* Lines 288-300, the cache: every Ok result is inserted, in join order;
\* an Err result is only logged.
MergeCache(cache, joined) ==
    IF joined = <<>> THEN cache
    ELSE LET j == Head(joined)
         IN  MergeCache(IF j.resp.ok THEN Insert(cache, j.name, j.resp.versions)
                        ELSE cache,
                        Tail(joined))

\* Lines 288-300, the results: every Ok result is pushed, in join order.
MergeResults(joined) ==
    LET oks == SelectSeq(joined, LAMBDA j : j.resp.ok)
    IN  [i \in 1..Len(oks) |-> [name |-> oks[i].name, versions |-> oks[i].resp.versions]]

(***************************************************************************)
(* collect_diagnostics, second half (main.rs 201-262).                     *)
(***************************************************************************)
\* A list that is left oldest-first.
NoReverse(s) == s

\* Vec::reverse (line 203).
Reverse(s) == [i \in 1..Len(s) |-> s[Len(s) + 1 - i]]

\* str::starts_with.
StartsWith(s, prefix) ==
    Len(prefix) <= Len(s) /\ SubSeq(s, 1, Len(prefix)) = prefix

\* Iterator::position: the first index (from 1) that matches, 0 for None.
FirstMatch(versions, req) ==
    LET hits == {i \in 1..Len(versions) : StartsWith(versions[i], req)}
    IN  IF hits = {} THEN 0 ELSE CHOOSE i \in hits : \A j \in hits : i <= j

\* deps.iter().find(|(n, _)| n == name): the first entry with that name.
FindDep(deps, name) ==
    CHOOSE i \in 1..Len(deps) :
        deps[i].name = name /\ \A j \in 1..(i - 1) : deps[j].name # name

\* A classification that has no case for "*": it is matched as a prefix.
ClassifyNoStar(versions, req) ==
    IF versions # <<>>
    THEN IF FirstMatch(versions, req) # 0
         THEN IF FirstMatch(versions, req) = 1
              THEN [label |-> "Latest Version", severity |-> "HINT"]
              ELSE [label |-> "Outdated Version", severity |-> "WARNING"]
         ELSE [label |-> "Unknown Version", severity |-> "ERROR"]
    ELSE [label |-> "Failed to fetch versions", severity |-> "ERROR"]

\* Lines 216-251: label and severity from the newest-first versions.
Classify(versions, req) ==
    IF versions # <<>>
    THEN IF req = ReqStar
         THEN [label |-> "Matches any Version", severity |-> "INFORMATION"]
         ELSE IF FirstMatch(versions, req) # 0
              THEN IF FirstMatch(versions, req) = 1
                   THEN [label |-> "Latest Version", severity |-> "HINT"]
                   ELSE [label |-> "Outdated Version", severity |-> "WARNING"]
              ELSE [label |-> "Unknown Version", severity |-> "ERROR"]
    ELSE [label |-> "Failed to fetch versions", severity |-> "ERROR"]

\* Lines 201-260: one diagnostic per element of dep_versions, placed at the
\* key span of the first entry that has that name (entry: its index in deps;
\* the key span of an entry is where its name stands in its table).  A key
\* span lies inside the text, after the header of its table and before its
\* value, where offset_to_pos returns a position: lines 207-214 skip nothing.
Diagnostics(text, dep_versions) ==
    [i \in 1..Len(dep_versions) |->
        LET e == FindDep(Deps(text), dep_versions[i].name)
            c == Classify(Reverse(dep_versions[i].versions), Deps(text)[e].req)
        IN  [entry |-> e, table |-> Deps(text)[e].table,
             name |-> dep_versions[i].name,
             label |-> c.label, severity |-> c.severity]]

(***************************************************************************)
(* State.                                                                  *)
(***************************************************************************)
VARIABLES
    \* CratesIoBackend.open_docs (main.rs 30): Uri -> FileInfo.
    open_docs,
    \* The task that holds the write guard of open_docs, 0 when it is free.
    docs_lock,
    \* CratesIoBackend.cache (main.rs 31): name -> versions.
    cache,
    \* The handler futures in flight, one record per slot.
    tasks,
    \* What the client shows for each URI: the last publish_diagnostics call.
    published,
    \* The editor's side of the document lifecycle, per manifest URI.
    client_docs,
    \* A handler has panicked (an unwrap on None): the server is gone.
    panicked,
    \* The number of notifications received so far.
    received,
    \* Which resolver the process runs: "async" (CratesIoBackend with its
    \* JoinSet) or "pool" (VersionDB with its worker threads).
    strategy,
    \* VersionDB.cache (api.rs 14): name -> versions.
    db_cache,
    \* The bounded request channel (api.rs 94): the names sent and not yet
    \* taken by a worker, oldest first.
    request_q,
    \* The response channel (api.rs 95): the results sent by the workers and
    \* not yet received, oldest first.
    response_q,
    \* The workers inside f(r) (api.rs 103): name -> how many workers are
    \* fetching it.
    busy,
    \* The thread inside VersionDB::get_versions: its position, its
    \* arguments and its locals.
    call,
    \* One application of a text function (pos_to_offset, offset_to_pos) on
    \* its own: the function, its arguments and what it returned.
    probe

backend_vars ==
    <<open_docs, docs_lock, cache, tasks, published, client_docs, panicked, received>>
db_vars == <<db_cache, request_q, response_q, busy, call>>
fn_vars == <<probe>>
vars == <<backend_vars, db_vars, fn_vars, strategy>>

\* A slot with no handler in it.
IdleTask ==
    [kind |-> "idle", pc |-> "idle", uri |-> NoUri, has_text |-> FALSE,
     text |-> TextEmpty, changes |-> <<>>, version |-> None, spawned |-> <<>>,
     pending |-> {},
     joined |-> <<>>, results |-> <<>>, diags |-> <<>>]

NotPublished == [state |-> "none", diagnostics |-> <<>>, version |-> None]
Publication(diagnostics, version) ==
    [state |-> "published", diagnostics |-> diagnostics, version |-> version]

\* The editor's view of a document: unopened, open or closed, and the
\* version it last sent.
ClientDoc(state, version) == [state |-> state, version |-> version]

\* No text function has been applied.
NoProbe ==
    [fn |-> "none", text |-> <<>>, pos |-> Position(0, 0), offset |-> 0, out |-> None]

\* The caller of VersionDB::get_versions outside a call.
NoCall == [pc |-> "idle", names |-> <<>>, i |-> 1, count |-> 0, results |-> <<>>]

InitState ==
    /\ open_docs = EmptyMap
    /\ docs_lock = 0
    /\ cache = EmptyMap
    /\ tasks = [t \in Tasks |-> IdleTask]
    /\ published = [u \in ManifestURIs |-> NotPublished]
    /\ client_docs = [u \in ManifestURIs |-> ClientDoc("unopened", 0)]
    /\ panicked = FALSE
    /\ received = 0
    /\ db_cache = EmptyMap
    /\ request_q = <<>>
    /\ response_q = <<>>
    /\ busy = [n \in DBNames |-> 0]
    /\ call = NoCall

Init == InitState /\ probe = NoProbe /\ strategy = "async"

(***************************************************************************)
(* The client: notifications arrive and start a handler future.  For a     *)
(* manifest the client opens before it changes, saves or closes, and       *)
(* closes before it opens again.  A handler first awaits log_message; for  *)
(* another file it then returns (pc "log"), for a manifest it goes on to   *)
(* its next suspension point.                                              *)
(***************************************************************************)
FreeSlot(t) ==
    /\ ~panicked
    /\ received < MaxNotifs
    /\ tasks[t].kind = "idle"
    /\ \A s \in Tasks : s < t => tasks[s].kind # "idle"

\* The handler future of a notification.  Before is_cargo_toml nothing of the
\* parameters but the URI is read, so a handler that will return there keeps
\* only its kind and its URI.
Handler(kind, uri, has_text, text, version, pc) ==
    IF is_cargo_toml(uri)
    THEN [IdleTask EXCEPT !.kind = kind, !.uri = uri, !.has_text = has_text,
                          !.text = text, !.version = version, !.pc = pc]
    ELSE [IdleTask EXCEPT !.kind = kind, !.uri = uri, !.pc = "log"]

ClientHasOpen(uri) == uri \in ManifestURIs => client_docs[uri].state = "open"

ClientSets(uri, state, version) ==
    client_docs' = IF uri \in ManifestURIs
                   THEN [client_docs EXCEPT ![uri] = ClientDoc(state, version)]
                   ELSE client_docs

\* The version of the next change of a document.
NextVersion(uri) ==
    IF uri \in ManifestURIs THEN client_docs[uri].version + 1 ELSE MaxVersion

\* did_open is called (main.rs 56-69).  The two manifests are
\* interchangeable (the server only compares URIs): of the two, the editor
\* opens a/Cargo.toml first.
DidOpenRecv(t, uri, text) ==
    /\ FreeSlot(t)
    /\ uri \in ManifestURIs => client_docs[uri].state # "open"
    /\ uri = UriB => client_docs[UriA].state # "unopened"
    /\ tasks' = [tasks EXCEPT ![t] = Handler("open", uri, TRUE, text, Some(1), "lock")]
    /\ ClientSets(uri, "open", 1)
    /\ UNCHANGED <<open_docs, docs_lock, cache, published, panicked>>
    /\ received' = received + 1
    /\ UNCHANGED <<db_vars, fn_vars, strategy>>

\* did_change is called (main.rs 87-100) with its content_changes.
DidChangeRecv(t, uri, changes) ==
    /\ FreeSlot(t)
    /\ ClientHasOpen(uri)
    /\ NextVersion(uri) <= MaxVersion
    /\ tasks' = [tasks EXCEPT ![t] =
                    [Handler("change", uri, FALSE, TextEmpty, Some(NextVersion(uri)), "lock")
                        EXCEPT !.changes = IF is_cargo_toml(uri) THEN changes ELSE <<>>]]
    /\ ClientSets(uri, "open", NextVersion(uri))
    /\ UNCHANGED <<open_docs, docs_lock, cache, published, panicked>>
    /\ received' = received + 1
    /\ UNCHANGED <<db_vars, fn_vars, strategy>>

\* did_save is called, with or without the text (main.rs 116-125).
DidSaveRecv(t, uri, has_text, text) ==
    /\ FreeSlot(t)
    /\ ClientHasOpen(uri)
    /\ has_text \/ text = TextEmpty
    /\ tasks' = [tasks EXCEPT ![t] = Handler("save", uri, has_text, text, None, "lock")]
    /\ UNCHANGED <<open_docs, docs_lock, cache, published, client_docs, panicked>>
    /\ received' = received + 1
    /\ UNCHANGED <<db_vars, fn_vars, strategy>>

\* did_close is called (main.rs 141-150).
DidCloseRecv(t, uri) ==
    /\ FreeSlot(t)
    /\ ClientHasOpen(uri)
    /\ tasks' = [tasks EXCEPT ![t] = Handler("close", uri, FALSE, TextEmpty, None, "clear")]
    /\ ClientSets(uri, "closed", 0)
    /\ UNCHANGED <<open_docs, docs_lock, cache, published, panicked>>
    /\ received' = received + 1
    /\ UNCHANGED <<db_vars, fn_vars, strategy>>

\* Handler t of that kind is at that position, and the server is alive.
At(t, kind, pc) == ~panicked /\ tasks[t].kind = kind /\ tasks[t].pc = pc

\* Any handler on a URI that is no manifest: is_cargo_toml fails, return.
Ignore(t) ==
    /\ ~panicked
    /\ tasks[t].pc = "log"
    /\ tasks' = [tasks EXCEPT ![t] = IdleTask]
    /\ UNCHANGED <<open_docs, docs_lock, cache, published, client_docs, panicked>>
    /\ UNCHANGED <<received, db_vars, fn_vars, strategy>>

(***************************************************************************)
(* The diagnostic pass up to its first suspension point.                   *)
(***************************************************************************)
\* update_diagnostics -> collect_diagnostics -> get_versions, lines 168-169,
\* 184-199 and 265-284: the task after the pass has parsed the text, read
\* the cache snapshot and spawned the fetches.  A text that does not parse
\* ends the handler (the error is logged); with nothing to fetch join_all
\* is ready at once and the diagnostics are built.
StartPass(task, text, version, snapshot) ==
    IF ~ParseOk(text) THEN IdleTask
    ELSE LET names == DepNames(text)
             hits == CacheHits(snapshot, names)
             misses == CacheMisses(snapshot, names)
         IN  IF misses = <<>>
             THEN [task EXCEPT !.pc = "publish", !.text = text, !.version = version,
                               !.results = hits,
                               !.diags = Diagnostics(text, hits)]
             ELSE [task EXCEPT !.pc = "join", !.text = text, !.version = version,
                               !.results = hits, !.spawned = misses,
                               !.pending = 1..Len(misses)]

\* did_open, main.rs 71-84: insert the document (the write guard is a
\* temporary, dropped at the end of the statement), then run the pass on
\* the text of the notification.
DidOpenInsert(t) ==
    /\ At(t, "open", "lock")
    /\ docs_lock = 0
    /\ open_docs' = Insert(open_docs, tasks[t].uri,
                           FileInfo(tasks[t].text, tasks[t].version[1]))
    /\ tasks' = [tasks EXCEPT ![t] =
                    StartPass(tasks[t], tasks[t].text, tasks[t].version, cache)]
    /\ UNCHANGED <<docs_lock, cache, published, client_docs, panicked>>
    /\ UNCHANGED <<received, db_vars, fn_vars, strategy>>

\* did_change, main.rs 102-113: get_mut(uri).unwrap() panics when the
\* document is not there, and so does a change that ChangePanics describes;
\* otherwise the changes are applied in order and the version is replaced.
DidChangeApply(t) ==
    /\ At(t, "change", "lock")
    /\ docs_lock = 0
    /\ LET uri == tasks[t].uri
           text == IF uri \in DOMAIN open_docs
                   THEN ApplyChanges(open_docs[uri].text, tasks[t].changes)
                   ELSE None
       IN  IF text # None
           THEN /\ open_docs' = [open_docs EXCEPT ![uri] =
                                    FileInfo(text[1], tasks[t].version[1])]
                /\ tasks' = [tasks EXCEPT ![t] = IdleTask]
                /\ UNCHANGED panicked
           ELSE /\ panicked' = TRUE
                /\ UNCHANGED <<open_docs, tasks>>
    /\ UNCHANGED <<docs_lock, cache, published, client_docs>>
    /\ UNCHANGED <<received, db_vars, fn_vars, strategy>>

\* did_save, main.rs 127-137: take the write guard and keep it to the end
\* of the handler.  With a document and a text: replace the text, pass on
\* it with the document's version.  With a text only: pass on it without a
\* version.  Without a text: return.
DidSaveLock(t) ==
    /\ At(t, "save", "lock")
    /\ docs_lock = 0
    /\ LET uri == tasks[t].uri
           next == IF tasks[t].has_text
                   THEN StartPass(tasks[t], tasks[t].text,
                                  IF uri \in DOMAIN open_docs
                                  THEN Some(open_docs[uri].version) ELSE None,
                                  cache)
                   ELSE IdleTask
       IN  /\ open_docs' = IF uri \in DOMAIN open_docs /\ tasks[t].has_text
                           THEN [open_docs EXCEPT ![uri].text = tasks[t].text]
                           ELSE open_docs
           /\ tasks' = [tasks EXCEPT ![t] = next]
           /\ docs_lock' = IF next.kind = "idle" THEN 0 ELSE t
    /\ UNCHANGED <<cache, published, client_docs, panicked>>
    /\ UNCHANGED <<received, db_vars, fn_vars, strategy>>

\* did_close, main.rs 152-155: publish the empty list.
DidCloseClear(t) ==
    /\ At(t, "close", "clear")
    /\ published' = [published EXCEPT ![tasks[t].uri] = Publication(<<>>, None)]
    /\ tasks' = [tasks EXCEPT ![t].pc = "lock"]
    /\ UNCHANGED <<open_docs, docs_lock, cache, client_docs, panicked>>
    /\ UNCHANGED <<received, db_vars, fn_vars, strategy>>

\* did_close, main.rs 157-158: take the write guard, remove the document.
DidCloseRemove(t) ==
    /\ At(t, "close", "lock")
    /\ docs_lock = 0
    /\ open_docs' = Remove(open_docs, tasks[t].uri)
    /\ tasks' = [tasks EXCEPT ![t] = IdleTask]
    /\ UNCHANGED <<docs_lock, cache, published, client_docs, panicked>>
    /\ UNCHANGED <<received, db_vars, fn_vars, strategy>>

(***************************************************************************)
(* The rest of the pass.                                                   *)
(***************************************************************************)
\* One spawned fetch task finishes (main.rs 277-280): the registry answers
\* with a version list or the fetch fails.
FetchDone(t, i, resp) ==
    /\ ~panicked
    /\ tasks[t].pc = "join"
    /\ i \in tasks[t].pending
    /\ tasks' = [tasks EXCEPT
                    ![t].pending = @ \ {i},
                    ![t].joined = Append(@, [name |-> tasks[t].spawned[i], resp |-> resp])]
    /\ UNCHANGED <<open_docs, docs_lock, cache, published, client_docs, panicked>>
    /\ UNCHANGED <<received, db_vars, fn_vars, strategy>>

\* get_versions, main.rs 284-302, and collect_diagnostics, lines 201-262:
\* join_all has every result; merge them into the cache under the write
\* lock, return the results, build the diagnostics.
JoinAll(t) ==
    /\ ~panicked
    /\ tasks[t].pc = "join"
    /\ JoinAllReady(tasks[t])
    /\ cache' = MergeCache(cache, tasks[t].joined)
    /\ LET results == tasks[t].results \o MergeResults(tasks[t].joined)
       IN  tasks' = [tasks EXCEPT ![t].pc = "publish",
                                  ![t].results = results,
                                  ![t].diags = Diagnostics(tasks[t].text, results)]
    /\ UNCHANGED <<open_docs, docs_lock, published, client_docs, panicked>>
    /\ UNCHANGED <<received, db_vars, fn_vars, strategy>>

\* update_diagnostics, main.rs 170-174: publish; the handler returns, and
\* did_save's write guard is dropped.
Publish(t) ==
    /\ ~panicked
    /\ tasks[t].pc = "publish"
    /\ published' = [published EXCEPT ![tasks[t].uri] =
                        Publication(tasks[t].diags, tasks[t].version)]
    /\ tasks' = [tasks EXCEPT ![t] = IdleTask]
    /\ docs_lock' = IF docs_lock = t THEN 0 ELSE docs_lock
    /\ UNCHANGED <<open_docs, cache, client_docs, panicked>>
    /\ UNCHANGED <<received, db_vars, fn_vars, strategy>>

Next ==
    \/ \E t \in Tasks, uri \in URIs, text \in Texts : DidOpenRecv(t, uri, text)
    \/ \E t \in Tasks, uri \in URIs, text \in Texts :
          DidChangeRecv(t, uri, <<Change(None, text)>>)
    \/ \E t \in Tasks, uri \in URIs, text \in Texts \cup {TextEmpty}, has_text \in BOOLEAN :
          DidSaveRecv(t, uri, has_text, text)
    \/ \E t \in Tasks, uri \in URIs : DidCloseRecv(t, uri)
    \/ \E t \in Tasks : Ignore(t)
    \/ \E t \in Tasks : DidOpenInsert(t)
    \/ \E t \in Tasks : DidChangeApply(t)
    \/ \E t \in Tasks : DidSaveLock(t)
    \/ \E t \in Tasks : DidCloseClear(t)
    \/ \E t \in Tasks : DidCloseRemove(t)
    \/ \E t \in Tasks, resp \in Responses :
          \E i \in tasks[t].pending : FetchDone(t, i, resp)
    \/ \E t \in Tasks : JoinAll(t)
    \/ \E t \in Tasks : Publish(t)

Spec == Init /\ [][Next]_vars

(***************************************************************************)
(* VersionDB, the thread-pool resolver (api.rs).                           *)
(***************************************************************************)
\* The name lists a caller passes.
RECURSIVE SeqsUpTo(_, _)
SeqsUpTo(S, n) ==
    IF n = 0 THEN {<<>>}
    ELSE SeqsUpTo(S, n - 1) \cup
         {Append(q, x) : q \in {r \in SeqsUpTo(S, n - 1) : Len(r) = n - 1}, x \in S}

NameLists == SeqsUpTo(DBNames, MaxDBNames)

\* api.rs 23: fetch_versions(..).unwrap_or_default(): a failed fetch becomes
\* the empty list.
UnwrapOrDefault(resp) == IF resp.ok THEN resp.versions ELSE <<>>

BusyWorkers == busy["a"] + busy["b"]

\* get_versions is called (api.rs 34-36).
DBCall(names) ==
    /\ call.pc = "idle"
    /\ call' = [pc |-> "send", names |-> names, i |-> 1, count |-> 0, results |-> <<>>]
    /\ UNCHANGED <<db_cache, request_q, response_q, busy, backend_vars, fn_vars, strategy>>

\* A first loop whose request channel has no capacity limit.
DBSendUnbounded ==
    /\ call.pc = "send"
    /\ call.i <= Len(call.names)
    /\ LET name == call.names[call.i]
       IN  IF name \in DOMAIN db_cache
           THEN /\ call' = [call EXCEPT
                               !.i = @ + 1,
                               !.results = Append(@, [name |-> name,
                                                      versions |-> db_cache[name]])]
                /\ UNCHANGED request_q
           ELSE /\ request_q' = Append(request_q, name)
                /\ call' = [call EXCEPT !.i = @ + 1, !.count = @ + 1]
    /\ UNCHANGED <<db_cache, response_q, busy, backend_vars, fn_vars, strategy>>

\* One turn of the first loop (api.rs 37-45): a cached name is pushed to
\* the results, any other name is sent to the workers; send blocks while the
\* request channel is full.
DBSend ==
    /\ call.pc = "send"
    /\ call.i <= Len(call.names)
    /\ LET name == call.names[call.i]
       IN  IF name \in DOMAIN db_cache
           THEN /\ call' = [call EXCEPT
                               !.i = @ + 1,
                               !.results = Append(@, [name |-> name,
                                                      versions |-> db_cache[name]])]
                /\ UNCHANGED request_q
           ELSE /\ Len(request_q) < THREADS
                /\ request_q' = Append(request_q, name)
                /\ call' = [call EXCEPT !.i = @ + 1, !.count = @ + 1]
    /\ UNCHANGED <<db_cache, response_q, busy, backend_vars, fn_vars, strategy>>

\* The first loop is over (api.rs 45-46).
DBSent ==
    /\ call.pc = "send"
    /\ call.i > Len(call.names)
    /\ call' = [call EXCEPT !.pc = "recv"]
    /\ UNCHANGED <<db_cache, request_q, response_q, busy, backend_vars, fn_vars, strategy>>

\* One turn of the second loop (api.rs 46-50): receive a response, insert
\* it into the cache, push it to the results.
DBRecv ==
    /\ call.pc = "recv"
    /\ call.count > 0
    /\ response_q # <<>>
    /\ LET r == Head(response_q)
       IN  /\ db_cache' = Insert(db_cache, r.name, r.versions)
           /\ call' = [call EXCEPT
                          !.count = @ - 1,
                          !.results = Append(@, [name |-> r.name, versions |-> r.versions])]
    /\ response_q' = Tail(response_q)
    /\ UNCHANGED <<request_q, busy, backend_vars, fn_vars, strategy>>

\* count responses were received: return the results (api.rs 51).
DBReturn ==
    /\ call.pc = "recv"
    /\ call.count = 0
    /\ call' = [call EXCEPT !.pc = "idle"]
    /\ UNCHANGED <<db_cache, request_q, response_q, busy, backend_vars, fn_vars, strategy>>

\* A worker that waits in request_rx.recv() takes the oldest request and
\* starts f(r) (api.rs 102-103).
WorkerRecv ==
    /\ request_q # <<>>
    /\ BusyWorkers < THREADS
    /\ busy' = [busy EXCEPT ![Head(request_q)] = @ + 1]
    /\ request_q' = Tail(request_q)
    /\ UNCHANGED <<db_cache, response_q, call, backend_vars, fn_vars, strategy>>

\* A worker whose response channel is a rendezvous channel: its send
\* completes only while the caller is in its receive loop.
WorkerSendRendezvous(name, resp) ==
    /\ call.pc = "recv"
    /\ busy[name] > 0
    /\ busy' = [busy EXCEPT ![name] = @ - 1]
    /\ response_q' = Append(response_q,
                            [name |-> name, versions |-> UnwrapOrDefault(resp),
                             failed |-> ~resp.ok])
    /\ UNCHANGED <<db_cache, request_q, call, backend_vars, fn_vars, strategy>>

\* A worker's fetch returns and the worker sends (name, versions) on the
\* response channel (api.rs 22-25, 103); the channel is unbounded (api.rs
\* 95), the send never blocks.  failed records the Result that
\* unwrap_or_default drops; the code never reads it.
WorkerSend(name, resp) ==
    /\ busy[name] > 0
    /\ busy' = [busy EXCEPT ![name] = @ - 1]
    /\ response_q' = Append(response_q,
                            [name |-> name, versions |-> UnwrapOrDefault(resp),
                             failed |-> ~resp.ok])
    /\ UNCHANGED <<db_cache, request_q, call, backend_vars, fn_vars, strategy>>

NextDB ==
    \/ \E names \in NameLists : DBCall(names)
    \/ DBSend
    \/ DBSent
    \/ DBRecv
    \/ DBReturn
    \/ WorkerRecv
    \/ \E name \in DBNames, resp \in Responses : WorkerSend(name, resp)

InitDB == InitState /\ probe = NoProbe /\ strategy = "pool"

SpecDB == InitDB /\ [][NextDB]_vars

\* The process runs one of the two resolvers.
InitBoth == InitState /\ probe = NoProbe /\ strategy \in {"async", "pool"}

NextBoth ==
    \/ strategy = "async" /\ Next
    \/ strategy = "pool" /\ NextDB

SpecBoth == InitBoth /\ [][NextBoth]_vars

(***************************************************************************)
(* pos_to_offset and offset_to_pos on their own: the texts, positions and  *)
(* offsets they are applied to.                                            *)
(***************************************************************************)
\* The longest text, and the largest line and character of a position.
MaxLen == 3

Chars == {"x", "\n"}
AsciiTexts == SeqsUpTo(Chars, MaxLen)
Positions == {Position(l, c) : l \in 0..MaxLen, c \in 0..MaxLen}
Offsets == 0..(MaxLen + 1)

\* pos_to_offset is called on a text.
PosToOffset(pos) ==
    /\ ~panicked
    /\ probe.fn = "none"
    /\ probe' = [probe EXCEPT !.fn = "pos_to_offset", !.pos = pos,
                              !.out = pos_to_offset(probe.text, pos)]
    /\ UNCHANGED <<backend_vars, db_vars, strategy>>

\* offset_to_pos is called on a text.
OffsetToPos(offset) ==
    /\ ~panicked
    /\ probe.fn = "none"
    /\ IF offset_to_pos_panics(probe.text, offset)
       THEN /\ panicked' = TRUE
            /\ probe' = [probe EXCEPT !.fn = "offset_to_pos", !.offset = offset]
       ELSE /\ probe' = [probe EXCEPT !.fn = "offset_to_pos", !.offset = offset,
                                      !.out = offset_to_pos(probe.text, offset)]
            /\ UNCHANGED panicked
    /\ UNCHANGED <<open_docs, docs_lock, cache, tasks, published, client_docs, received>>
    /\ UNCHANGED <<db_vars, strategy>>

\* pos_to_offset is called on the position that offset_to_pos returned.
RoundTrip ==
    /\ ~panicked
    /\ probe.fn = "offset_to_pos"
    /\ probe.out # None
    /\ probe' = [probe EXCEPT !.fn = "round_trip", !.pos = probe.out[1],
                              !.out = pos_to_offset(probe.text, probe.out[1])]
    /\ UNCHANGED <<backend_vars, db_vars, strategy>>

InitPos ==
    /\ InitState
    /\ strategy = "async"
    /\ \E text \in AsciiTexts : probe = [NoProbe EXCEPT !.text = text]

NextPos ==
    \/ \E pos \in Positions : PosToOffset(pos)
    \/ \E offset \in Offsets : OffsetToPos(offset)
    \/ RoundTrip

SpecPos == InitPos /\ [][NextPos]_vars

(***************************************************************************)
(* Ranged edits: did_change with ranges on a document of bytes.  The       *)
(* document was opened with version 1 and the pass of its did_open is      *)
(* over.                                                                   *)
(***************************************************************************)
\* The longest text of the document when it is opened, the largest line and
\* character of a range, and the most changes of one notification.
MaxDocLen == 2
MaxChanges == 2

DocTexts == SeqsUpTo(Chars, MaxDocLen)
DocPositions == {Position(l, c) : l \in 0..MaxDocLen, c \in 0..MaxDocLen}
Replacements == {<<>>, <<"x">>, <<"\n">>}
RangedChanges ==
    {Change(Some(LspRange(start, end)), with) :
        start \in DocPositions, end \in DocPositions, with \in Replacements}
\* The content_changes of a notification: at most n ranged changes.
ChangeLists(n) == SeqsUpTo(RangedChanges, n)

\* toml::from_str on a text of these bytes: blank lines are the empty
\* manifest, a bare "x" is a key without a value.
ParsesAsManifest(text) == \A i \in 1..Len(text) : text[i] = "\n"

InitDoc ==
    /\ \E text \in DocTexts :
          /\ open_docs = [u \in {UriA} |-> FileInfo(text, 1)]
          /\ published = [u \in ManifestURIs |->
                            IF u = UriA /\ ParsesAsManifest(text)
                            THEN Publication(<<>>, Some(1)) ELSE NotPublished]
    /\ client_docs = [u \in ManifestURIs |->
                        IF u = UriA THEN ClientDoc("open", 1)
                        ELSE ClientDoc("unopened", 0)]
    /\ received = 1
    /\ docs_lock = 0
    /\ cache = EmptyMap
    /\ tasks = [t \in Tasks |-> IdleTask]
    /\ panicked = FALSE
    /\ db_cache = EmptyMap
    /\ request_q = <<>>
    /\ response_q = <<>>
    /\ busy = [n \in DBNames |-> 0]
    /\ call = NoCall
    /\ probe = NoProbe
    /\ strategy = "async"

\* The editor sends a did_change with ranged changes for the document.
DidChangeRanged ==
    /\ FreeSlot(1)
    /\ \E changes \in ChangeLists(MaxChanges) : DidChangeRecv(1, UriA, changes)

NextDoc ==
    \/ DidChangeRanged
    \/ DidChangeApply(1)

SpecDoc == InitDoc /\ [][NextDoc]_vars

(***************************************************************************)
(* One diagnostic pass on its own: did_open of one manifest, whose entries *)
(* are drawn from the three tables, on a cache that is empty or holds "a". *)
(***************************************************************************)
\* The most entries of a manifest.
MaxEntries == 2

Tables == <<"dependencies", "build-dependencies", "dev-dependencies">>
PassNames == <<"a", "b">>
Req9 == <<"9">>

\* What an entry declares: a requirement, or a path (its req() is "*").
Declarations ==
    {[req |-> r, path |-> FALSE] : r \in {ReqStar, Req1, Req2, Req9}}
        \cup {[req |-> ReqStar, path |-> TRUE]}

\* The places of a manifest where an entry can stand, in the order of
\* deps.chain(build).chain(dev), each table ordered by key.
Slots == 1..(Len(Tables) * Len(PassNames))
SlotTable(k) == Tables[((k - 1) \div Len(PassNames)) + 1]
SlotName(k) == PassNames[((k - 1) % Len(PassNames)) + 1]

\* The slots of a set in increasing order.
RECURSIVE SortedSlots(_)
SortedSlots(S) ==
    IF S = {} THEN <<>>
    ELSE LET k == CHOOSE x \in S : \A y \in S : x <= y
         IN  <<k>> \o SortedSlots(S \ {k})

ManifestTexts ==
    UNION {{[ok |-> TRUE,
             deps |-> [i \in 1..Cardinality(S) |->
                          Entry(SlotName(SortedSlots(S)[i]), d[i].req, d[i].path,
                                SlotTable(SortedSlots(S)[i]))]] :
               d \in [1..Cardinality(S) -> Declarations]} :
           S \in {T \in SUBSET Slots : Cardinality(T) <= MaxEntries}}

InitPass ==
    /\ open_docs = EmptyMap
    /\ docs_lock = 0
    /\ cache \in {EmptyMap, Insert(EmptyMap, "a", <<V10, V20>>)}
    /\ tasks = [t \in Tasks |-> IdleTask]
    /\ published = [u \in ManifestURIs |-> NotPublished]
    /\ client_docs = [u \in ManifestURIs |-> ClientDoc("unopened", 0)]
    /\ panicked = FALSE
    /\ received = 0
    /\ db_cache = EmptyMap
    /\ request_q = <<>>
    /\ response_q = <<>>
    /\ busy = [n \in DBNames |-> 0]
    /\ call = NoCall
    /\ probe = NoProbe
    /\ strategy = "async"

\* The editor opens the manifest.
PassOpen ==
    /\ received = 0
    /\ \E text \in ManifestTexts : DidOpenRecv(1, UriA, text)

NextPass ==
    \/ PassOpen
    \/ DidOpenInsert(1)
    \/ \E resp \in Responses : \E i \in tasks[1].pending : FetchDone(1, i, resp)
    \/ JoinAll(1)
    \/ Publish(1)

SpecPass == InitPass /\ [][NextPass]_vars

(***************************************************************************)
(* The server with one manifest open: did_open of a/Cargo.toml has         *)
(* returned; its fetches failed, so it published no diagnostic and the     *)
(* cache is empty.                                                         *)
(***************************************************************************)
InitOpened ==
    /\ open_docs = [u \in {UriA} |-> FileInfo(TextAA, 1)]
    /\ published = [u \in ManifestURIs |->
                      IF u = UriA THEN Publication(<<>>, Some(1)) ELSE NotPublished]
    /\ client_docs = [u \in ManifestURIs |->
                        IF u = UriA THEN ClientDoc("open", 1)
                        ELSE ClientDoc("unopened", 0)]
    /\ received = 0
    /\ docs_lock = 0
    /\ cache = EmptyMap
    /\ tasks = [t \in Tasks |-> IdleTask]
    /\ panicked = FALSE
    /\ db_cache = EmptyMap
    /\ request_q = <<>>
    /\ response_q = <<>>
    /\ busy = [n \in DBNames |-> 0]
    /\ call = NoCall
    /\ probe = NoProbe
    /\ strategy = "async"

SpecOpened == InitOpened /\ [][Next]_vars

(***************************************************************************)
(* VersionDB with long name lists: more cache misses in one call than the  *)
(* workers and the request channel hold together.  Every fetch succeeds   *)
(* here; SpecDB has the fetches that fail.                                 *)
(***************************************************************************)
\* The length of a long name list.
MaxBurst == 9

\* The long name lists: some "a", then "b".
BurstLists ==
    {[i \in 1..MaxBurst |-> IF i <= k THEN "a" ELSE "b"] : k \in 0..MaxBurst}

NextBurst ==
    \/ \E names \in BurstLists : DBCall(names)
    \/ DBSend
    \/ DBSent
    \/ DBRecv
    \/ DBReturn
    \/ WorkerRecv
    \/ \E name \in DBNames : WorkerSend(name, Ok(<<V10, V20>>))

SpecBurst == InitDB /\ [][NextBurst]_vars

\* The threads are scheduled fairly: the caller inside get_versions and a
\* worker go on whenever they are not blocked on a channel, and every fetch
\* returns.  Nothing obliges the caller to call again.
BurstFairness ==
    /\ WF_vars(DBSend)
    /\ WF_vars(DBSent)
    /\ WF_vars(DBRecv)
    /\ WF_vars(DBReturn)
    /\ WF_vars(WorkerRecv)
    /\ WF_vars(\E name \in DBNames : WorkerSend(name, Ok(<<V10, V20>>)))

SpecBurstFair == SpecBurst /\ BurstFairness

(***************************************************************************)
(* Properties.                                                             *)
(***************************************************************************)
\* Handler t is inside a diagnostic pass.
InPass(t) == tasks[t].kind \in {"open", "save"} /\ tasks[t].pc \in {"join", "publish"}

\* Handler t is inside get_versions, its fetches dispatched and not merged.
InResolve(t) == tasks[t].pc = "join"

\* The names whose fetch failed, and those whose fetch succeeded, in a call.
FailedNames(task) == {j.name : j \in {x \in Range(task.joined) : ~x.resp.ok}}
FetchedNames(task) == {j.name : j \in {x \in Range(task.joined) : x.resp.ok}}

\* C1: two overlapping get_versions calls never both dispatch a fetch for
\* the same name.
C1_FetchedAtMostOnce ==
    \A t1, t2 \in Tasks :
        (t1 # t2 /\ InResolve(t1) /\ InResolve(t2)) =>
            Range(tasks[t1].spawned) \cap Range(tasks[t2].spawned) = {}

\* C2: the merge of a call never puts into the cache a name whose fetches
\* all failed in that call, and a call that starts dispatches a fetch for
\* every requested name that the cache does not hold.
C2_FailedFetchNotCached ==
    [][\A t \in Tasks :
          /\ (tasks[t].pc = "join" /\ tasks'[t].pc = "publish") =>
                \A n \in FailedNames(tasks[t]) \ FetchedNames(tasks[t]) :
                    n \notin DOMAIN cache => n \notin DOMAIN cache'
          /\ (tasks[t].pc = "lock" /\ tasks'[t].pc \in {"join", "publish"}) =>
                \A n \in Range(DepNames(tasks'[t].text)) :
                    n \notin DOMAIN cache => n \in Range(tasks'[t].spawned)
      ]_vars

\* A pass whose fetch failed has published its (empty) diagnostics, the
\* cache still holds nothing, and the only handler running has dispatched a
\* fetch for "a" again.
C2_Witness ==
    /\ cache = EmptyMap
    /\ \E u \in ManifestURIs : published[u] = Publication(<<>>, Some(1))
    /\ \E t \in Tasks :
          /\ InResolve(t) /\ "a" \in Range(tasks[t].spawned)
          /\ \A s \in Tasks \ {t} : tasks[s].kind = "idle"

\* C3: when get_versions has returned, every name whose fetch failed has an
\* entry with the empty version list in the results and an Error diagnostic.
C3_FailedFetchReported ==
    \A t \in Tasks :
        tasks[t].pc = "publish" =>
            \A n \in FailedNames(tasks[t]) :
                /\ \E r \in Range(tasks[t].results) : r.name = n /\ r.versions = <<>>
                /\ \E d \in Range(tasks[t].diags) : d.name = n /\ d.severity = "ERROR"

\* C4: VersionDB::get_versions does not put into the cache a name that the
\* cache did not hold when the response it receives comes from a failed
\* fetch.
C4_DBFailedFetchNotCached ==
    [][(/\ call.pc = "recv"
        /\ response_q # <<>>
        /\ response_q' = Tail(response_q)
        /\ Head(response_q).failed
        /\ Head(response_q).name \notin DOMAIN db_cache)
       => Head(response_q).name \notin DOMAIN db_cache'
      ]_vars

\* C5: when get_versions has returned, every fetch it dispatched has
\* finished and its result was consumed; when VersionDB::get_versions has
\* returned, no request is queued, no worker is fetching and no response is
\* left on the response channel.
C5_Barrier ==
    /\ \A t \in Tasks :
          tasks[t].pc = "publish" =>
              /\ tasks[t].pending = {}
              /\ Len(tasks[t].joined) = Len(tasks[t].spawned)
    /\ call.pc = "idle" =>
          /\ request_q = <<>>
          /\ BusyWorkers = 0
          /\ response_q = <<>>

\* A call that dispatched two fetches has returned.
C5_Witness ==
    \E t \in Tasks : tasks[t].pc = "publish" /\ Len(tasks[t].spawned) = 2

\* C6: one get_versions call dispatches at most one fetch per name.
C6_OneFetchPerName ==
    \A t \in Tasks :
        \A i, j \in 1..Len(tasks[t].spawned) :
            i # j => tasks[t].spawned[i] # tasks[t].spawned[j]

\* C7: a cache entry is never removed and never changed.
C7_CacheEntriesStable ==
    [][\A n \in DOMAIN cache : n \in DOMAIN cache' /\ cache'[n] = cache[n]]_vars

\* C8: no two diagnostic passes for the same URI are in flight at the same
\* time.
C8_PassesSerialized ==
    \A t1, t2 \in Tasks :
        (t1 # t2 /\ InPass(t1) /\ InPass(t2)) => tasks[t1].uri # tasks[t2].uri

\* C9: once did_close has returned for a URI and the client has not opened
\* it again, the client shows the empty publish of the close and no pass is
\* running for that URI.
C9_CloseSemantics ==
    \A u \in ManifestURIs :
        (/\ client_docs[u].state = "closed"
         /\ ~\E t \in Tasks : tasks[t].kind = "close" /\ tasks[t].uri = u)
        => /\ published[u] = Publication(<<>>, None)
           /\ ~\E t \in Tasks : tasks[t].uri = u /\ InPass(t)

\* C10: did_save for an open manifest replaces the tracked text when it
\* carries one, and runs the pass on the text it carries or else on the
\* tracked text.
C10_SaveRunsPass ==
    [][\A t \in Tasks :
          (/\ At(t, "save", "lock")
           /\ tasks'[t] # tasks[t]
           /\ tasks[t].uri \in DOMAIN open_docs)
          => LET uri == tasks[t].uri
                 text == IF tasks[t].has_text THEN tasks[t].text
                         ELSE open_docs[uri].text
             IN  /\ open_docs'[uri].text = text
                 /\ ParseOk(text) =>
                       /\ tasks'[t].pc \in {"join", "publish"}
                       /\ tasks'[t].text = text
      ]_vars

\* The length of the line of the text that starts at that offset.
LineLen(text, start) ==
    LET ends == {i \in (start + 1)..Len(text) : text[i] = "\n"}
    IN  IF ends = {} THEN Len(text) - start
        ELSE (CHOOSE i \in ends : \A j \in ends : i <= j) - 1 - start

\* C11: pos_to_offset returns no offset for a position whose line is past
\* the last line of the text or whose character is past the end of its
\* line, and an offset it returns lies in the line of the position.
C11_PosToOffsetRejects ==
    probe.fn = "pos_to_offset" =>
        LET text == probe.text
            pos == probe.pos
            start == NthLineStart(text, pos.line)
        IN  /\ pos.line >= LinesCount(text) => probe.out = None
            /\ (/\ pos.line < LinesCount(text)
                /\ pos.character > LineLen(text, start)) => probe.out = None
            /\ probe.out # None =>
                  /\ start <= probe.out[1]
                  /\ probe.out[1] <= start + LineLen(text, start)

\* C13: for every offset from 0 to the length of the text offset_to_pos
\* returns a position, and pos_to_offset of that position is the offset.
C13_RoundTrip ==
    /\ (probe.fn = "offset_to_pos" /\ probe.offset <= Len(probe.text)) =>
          ~panicked /\ probe.out # None
    /\ probe.fn = "round_trip" => probe.out = Some(probe.offset)

\* The editor's lines: the offsets at which the lines of a text start; a
\* text that ends with "\n" has an empty last line.
EditorLineStarts(text) == {0} \cup {i \in 1..Len(text) : text[i] = "\n"}

\* The offset of a position that lies in the text, None for any other.
EditorOffset(text, pos) ==
    IF pos.line >= Cardinality(EditorLineStarts(text)) THEN None
    ELSE LET start == CHOOSE s \in EditorLineStarts(text) :
                          Cardinality({r \in EditorLineStarts(text) : r < s}) = pos.line
         IN  IF pos.character > LineLen(text, start) THEN None
             ELSE Some(start + pos.character)

\* A ranged change whose positions lie in the text, start before end.
InBounds(text, change) ==
    /\ change.range # None
    /\ EditorOffset(text, change.range[1].start) # None
    /\ EditorOffset(text, change.range[1].end) # None
    /\ EditorOffset(text, change.range[1].start)[1] <=
          EditorOffset(text, change.range[1].end)[1]

\* The text with the range of an in-bounds change replaced.
Spliced(text, change) ==
    SubSeq(text, 1, EditorOffset(text, change.range[1].start)[1])
        \o change.text
        \o SubSeq(text, EditorOffset(text, change.range[1].end)[1] + 1, Len(text))

RECURSIVE AllInBounds(_, _)
AllInBounds(text, changes) ==
    \/ changes = <<>>
    \/ /\ InBounds(text, Head(changes))
       /\ AllInBounds(Spliced(text, Head(changes)), Tail(changes))

RECURSIVE SplicedAll(_, _)
SplicedAll(text, changes) ==
    IF changes = <<>> THEN text
    ELSE SplicedAll(Spliced(text, Head(changes)), Tail(changes))

\* C12: did_change with in-bounds ranged changes leaves the document with
\* the text of the equivalent full replacement.
C12_RangedEqualsFull ==
    [][\A t \in Tasks :
          (/\ At(t, "change", "lock")
           /\ tasks[t].uri \in DOMAIN open_docs
           /\ AllInBounds(open_docs[tasks[t].uri].text, tasks[t].changes)
           /\ tasks'[t] # tasks[t] \/ panicked')
          => /\ ~panicked'
             /\ open_docs'[tasks[t].uri].text =
                   SplicedAll(open_docs[tasks[t].uri].text, tasks[t].changes)
      ]_vars

\* The entry of the manifest that a diagnostic is placed at.
EntryOf(task, d) == Deps(task.text)[d.entry]

\* The decision table: the severity for a version list, newest first, and
\* a requirement.
TableSeverity(newest_first, req) ==
    IF newest_first = <<>> THEN "ERROR"
    ELSE IF req = ReqStar THEN "INFORMATION"
    ELSE IF StartsWith(newest_first[1], req) THEN "HINT"
    ELSE IF \E i \in 2..Len(newest_first) : StartsWith(newest_first[i], req)
         THEN "WARNING"
         ELSE "ERROR"

\* A version list in registry order, turned newest first.
NewestFirst(versions) ==
    [i \in 1..Len(versions) |-> versions[Len(versions) - i + 1]]

C16_OneDiagnosticPerEntry ==
    \A t \in Tasks :
        (tasks[t].pc = "publish" /\ FailedNames(tasks[t]) = {}) =>
            \A e \in 1..Len(Deps(tasks[t].text)) :
                Cardinality({i \in 1..Len(tasks[t].diags) :
                                tasks[t].diags[i].entry = e}) = 1

\* How often a name occurs in a sequence of names.
Occurrences(names, n) == Cardinality({i \in 1..Len(names) : names[i] = n})

\* C17: the names passed to get_versions (its cache hits and the fetches
\* it spawns) are one name for each entry that has no path, and no
\* diagnostic is placed at an entry that has a path.
C17_PathNeverResolved ==
    \A t \in Tasks :
        /\ tasks[t].pc = "join" =>
              \A n \in Range(PassNames) \cup Names :
                  Occurrences(tasks[t].spawned, n)
                      + Occurrences([i \in 1..Len(tasks[t].results) |->
                                        tasks[t].results[i].name], n)
                  = Cardinality({k \in 1..Len(tasks[t].text.deps) :
                                    /\ tasks[t].text.deps[k].name = n
                                    /\ ~tasks[t].text.deps[k].path})
        /\ tasks[t].pc = "publish" =>
              \A i \in 1..Len(tasks[t].diags) :
                  ~\E k \in 1..Len(tasks[t].text.deps) :
                      /\ tasks[t].text.deps[k].path
                      /\ tasks[t].text.deps[k].name = tasks[t].diags[i].name
                      /\ tasks[t].text.deps[k].table = tasks[t].diags[i].table

\* A pass on a manifest with a path entry and another entry has built its
\* one diagnostic.
C17_Witness ==
    \E t \in Tasks :
        /\ tasks[t].pc = "publish"
        /\ \E k \in 1..Len(tasks[t].text.deps) : tasks[t].text.deps[k].path
        /\ Len(tasks[t].diags) = 1
        /\ tasks[t].joined # <<>>

\* C18: no handler panics.
C18_NoPanic == ~panicked

\* C19: while a pass waits for its fetches, a handler of another document
\* that is about to take the open_docs guard can take it.
C19_FetchHoldsNoLock ==
    \A t1, t2 \in Tasks :
        (/\ InResolve(t1)
         /\ tasks[t2].pc = "lock"
         /\ tasks[t2].uri # tasks[t1].uri)
        => docs_lock = 0

\* C20: at most THREADS fetches are in progress and at most THREADS
\* requests are held in the request channel.
C20_PoolBounded ==
    /\ BusyWorkers <= THREADS
    /\ Len(request_q) <= THREADS

\* The sender is blocked: it has a cache miss to send, every worker is
\* fetching and the request channel is full.
C20_Witness ==
    /\ call.pc = "send"
    /\ call.i <= Len(call.names)
    /\ call.names[call.i] \notin DOMAIN db_cache
    /\ BusyWorkers = THREADS
    /\ Len(request_q) = THREADS

\* The names of a result list.
ResultNames(results) == [i \in 1..Len(results) |-> results[i].name]

\* C21: VersionDB::get_versions, once called, returns, and the results it
\* returns hold each name as often as the list of names it was called with.
C21_CallReturns ==
    /\ (call.pc \in {"send", "recv"}) ~> (call.pc = "idle")
    /\ [](call.pc = "idle" =>
             \A n \in DBNames :
                 Occurrences(ResultNames(call.results), n) = Occurrences(call.names, n))

\* A call with more cache misses than the workers and the request channel
\* hold has returned: the cache was empty, its names are all "a".
C21_Witness ==
    /\ call.pc = "idle"
    /\ Len(call.names) > THREADS + THREADS
    /\ \A i \in 1..Len(call.names) : call.names[i] = "a"
    /\ DOMAIN db_cache = {"a"}
    /\ Len(call.results) = Len(call.names)

====
